---- MODULE Spec2Model ----
(***************************************************************************)
(* Model of src/src/app.ts: the project store (ProjectState), its          *)
(* listeners, and the two ProjectList views that subscribe to it.          *)
(*                                                                         *)
(* app.ts holds two generations of the program one after the other.  The   *)
(* second generation (lines 242-508) redefines every name of the first     *)
(* (lines 1-240): `state` is rebound to the second ProjectState at line    *)
(* 298, so every event handled after the script has run reaches the second *)
(* store, to which only the second generation's views are subscribed.  The *)
(* model is of the second generation; the first generation's listener and  *)
(* renderProjects appear only as the variants a claim is tested against.   *)
(*                                                                         *)
(* JavaScript values with identity are modelled with identity:             *)
(*   heap    Project objects; a reference is an index into heap            *)
(*   arrays  array objects; arrays[StoreArr] is ProjectState.projects,     *)
(*           arrays[i] is the array most recently created for listener i   *)
(* Strings are sequences of one-character strings.                         *)
(***************************************************************************)
EXTENDS Integers, Sequences, FiniteSets, TLC

VARIABLES
    pc,                 \* position in the top-level code (lines 503-505), then "idle"
    clock,              \* the reading Date.now() returns
    heap,               \* Project objects, in allocation order
    arrays,             \* array objects: array id -> sequence of Project references
    listeners,          \* State.listeners: the registered callbacks, in order
    received,           \* per listener: id of the array last passed to it, or NoArr
    assignedProjects,   \* ProjectList.assignedProjects, per view type
    listEl,             \* content of <ul id="<type>-projects-list">: the li texts
    lastOp,             \* history: the store operation performed last
    calls,              \* history: the listener invocations that operation made
    written,            \* the listeners that wrote to the array they were last passed
    titleInput,         \* ProjectInput.titleInputElement.value
    descriptionInput,   \* ProjectInput.descriptionInputElement.value
    peopleInput,        \* ProjectInput.peopleInputElement.value
    lastSubmit,         \* history: what the last submit did
    dragged,            \* payload of the drag gesture in progress, or NoDrag
    over,               \* the view the gesture is over, or "none"
    droppable,          \* per view: the "droppable" affordance is on
    lastDrop,           \* history: the moveProject calls the last drop made
    fnIn,               \* argument of a function evaluated on its own
    fnOut               \* its result

storeVars == <<pc, clock, heap, arrays, listeners, received,
               assignedProjects, listEl, lastOp, calls, written>>

formVars == <<titleInput, descriptionInput, peopleInput, lastSubmit>>

dragVars == <<dragged, over, droppable, lastDrop>>

fnVars == <<fnIn, fnOut>>

vars == <<storeVars, formVars, dragVars, fnVars>>

----------------------------------------------------------------------------
(* Bounds *)

MaxProjects == 3
MaxClock == 1
MaxListeners == 3
MaxNum == 3             \* numeric bounds 0..MaxNum, values -1..MaxNum+1
MaxLen == 3             \* strings of up to MaxLen characters, length bounds 0..MaxLen
MaxPeople == 11         \* people counts 0..MaxPeople

----------------------------------------------------------------------------
(* Values *)

Active == "Active"
Finished == "Finished"
ProjectStatus == {Active, Finished}

ViewTypes == {"active", "finished"}

StoreArr == 0
NoArr == -1
ArrIds == 0..MaxListeners

BuildShed == <<"B", "u", "i", "l", "d", " ", "s", "h", "e", "d">>
WeekendProject ==
    <<"W", "e", "e", "k", "e", "n", "d", " ", "p", "r", "o", "j", "e", "c", "t">>
Blank == <<" ">>
Abcd == <<"a", "b", "c", "d">>

\* Argument triples of addProject: one the form would accept, one it would not
\* (blank title, description shorter than 5, people outside 1..5).
ArgTriples == { <<BuildShed, WeekendProject, 3>>, <<Blank, Abcd, 0>> }

Digit(d) ==
    CASE d = 0 -> "0" [] d = 1 -> "1" [] d = 2 -> "2" [] d = 3 -> "3"
      [] d = 4 -> "4" [] d = 5 -> "5" [] d = 6 -> "6" [] d = 7 -> "7"
      [] d = 8 -> "8" [] d = 9 -> "9"

RECURSIVE NumToString(_)
NumToString(n) ==
    IF n < 10 THEN <<Digit(n)>>
    ELSE NumToString(n \div 10) \o <<Digit(n % 10)>>

\* An id no Date.now() reading produces.
UnknownId == <<"x">>

\* No gesture in progress.
NoDrag == <<>>

NoFn == [fn |-> "none"]
NoResult == [done |-> FALSE, valid |-> FALSE, text |-> <<>>]

Project(id, title, description, people, status) ==
    [id |-> id, title |-> title, description |-> description,
     people |-> people, status |-> status]

----------------------------------------------------------------------------
(* Derived views of the state *)

projects == arrays[StoreArr]

Deref(h, arr) == [k \in 1..Len(arr) |-> h[arr[k]]]

\* The store's collection as values: the projects, in order.
StoreView == Deref(heap, projects)

Ids(h, arr) == {h[arr[k]].id : k \in 1..Len(arr)}

NoOp == [op |-> "none", id |-> <<>>, status |-> "", prev |-> <<>>, rounds |-> 0]

----------------------------------------------------------------------------
(* ProjectList *)

TypeStatus(type) == IF type = "active" THEN Active ELSE Finished

\* projects.filter(...) of the listener, lines 400-404
FilterByType(type, projs, h) ==
    LET Keep(r) == IF type = "active" THEN h[r].status = Active
                                      ELSE h[r].status = Finished
    IN SelectSeq(projs, Keep)

\* The first generation's renderProjects, lines 129-137: no clearing.
renderProjectsV1(oldList, assigned, h) ==
    oldList \o [k \in 1..Len(assigned) |-> h[assigned[k]].title]

\* renderProjects, lines 417-426: clear the list, then one li per project
renderProjects(oldList, assigned, h) ==
    LET cleared == <<>>
    IN cleared \o [k \in 1..Len(assigned) |-> h[assigned[k]].title]

\* The first generation's listener, lines 120-123: no filtering.
ListenerV1(type, projs, h, view) ==
    [assignedProjects |-> [view.assignedProjects EXCEPT ![type] = projs],
     listEl |-> [view.listEl EXCEPT
                   ![type] = renderProjects(view.listEl[type], projs, h)]]

\* A listener that renders before it filters.
ListenerRenderFirst(type, projs, h, view) ==
    [assignedProjects |-> [view.assignedProjects EXCEPT
                             ![type] = FilterByType(type, projs, h)],
     listEl |-> [view.listEl EXCEPT
                   ![type] = renderProjects(view.listEl[type],
                                            view.assignedProjects[type], h)]]

\* The listener a ProjectList registers, lines 399-407: filter, then render.
Listener(type, projs, h, view) ==
    LET assigned == FilterByType(type, projs, h)
    IN [assignedProjects |-> [view.assignedProjects EXCEPT ![type] = assigned],
        listEl |-> [view.listEl EXCEPT
                      ![type] = renderProjects(view.listEl[type], assigned, h)]]

----------------------------------------------------------------------------
(* State / ProjectState *)

\* The loop of lines 292-294 with the arrays it creates reversed in order.
NotifyCallsReversed(ls, arrs) ==
    [k \in 1..Len(ls) |->
        [listener |-> Len(ls) + 1 - k, arr |-> Len(ls) + 1 - k,
         items |-> arrs[StoreArr]]]

\* The loop passing this.projects itself instead of a copy.
NotifyCallsAliased(ls, arrs) ==
    [k \in 1..Len(ls) |->
        [listener |-> k, arr |-> StoreArr, items |-> arrs[StoreArr]]]

\* The loop of lines 292-294: for each listener, in registration order, one
\* call with a newly created array holding the references of this.projects.
NotifyCalls(ls, arrs) ==
    [k \in 1..Len(ls) |->
        [listener |-> k, arr |-> k, items |-> arrs[StoreArr]]]

\* Running the invoked callbacks, in call order, on the views.
RECURSIVE Deliver(_, _, _, _)
Deliver(cs, ls, h, view) ==
    IF cs = <<>> THEN view
    ELSE LET c == Head(cs)
             fn == ls[c.listener]
         IN Deliver(Tail(cs), ls, h,
                    IF fn \in ViewTypes THEN Listener(fn, c.items, h, view)
                                        ELSE view)

LastCallTo(cs, i) ==
    CHOOSE k \in 1..Len(cs) :
        /\ cs[k].listener = i
        /\ \A m \in 1..Len(cs) : cs[m].listener = i => m <= k

LastCallWith(cs, a) ==
    CHOOSE k \in 1..Len(cs) :
        /\ cs[k].arr = a
        /\ \A m \in 1..Len(cs) : cs[m].arr = a => m <= k

\* The effect of a notification round on everything but the store.
Notified(cs, h, arrs) ==
    LET view == Deliver(cs, listeners, h,
                        [assignedProjects |-> assignedProjects, listEl |-> listEl])
    IN /\ calls' = cs
       /\ arrays' = [a \in DOMAIN arrs |->
                        IF a # StoreArr /\ \E k \in 1..Len(cs) : cs[k].arr = a
                        THEN cs[LastCallWith(cs, a)].items ELSE arrs[a]]
       /\ received' = [i \in 1..Len(listeners) |->
                        IF \E k \in 1..Len(cs) : cs[k].listener = i
                        THEN cs[LastCallTo(cs, i)].arr ELSE received[i]]
       /\ assignedProjects' = view.assignedProjects
       /\ listEl' = view.listEl
       /\ written' = {i \in written : \A k \in 1..Len(cs) : cs[k].listener # i}

\* A variant that calls the new listener at once with the current projects.
addListenerEager(fn) ==
    LET i == Len(listeners) + 1
    IN /\ listeners' = Append(listeners, fn)
       /\ received' = Append(received, i)
       /\ arrays' = [arrays EXCEPT ![i] = arrays[StoreArr]]
       /\ calls' = <<[listener |-> i, arr |-> i, items |-> arrays[StoreArr]]>>

\* State.addListener, lines 261-263
addListener(fn) ==
    /\ listeners' = Append(listeners, fn)
    /\ received' = Append(received, NoArr)
    /\ arrays' = arrays
    /\ calls' = <<>>

\* this.projects.push(...) replaced by unshift.
PushFront(arr, r) == <<r>> \o arr

\* this.projects.push(newProject), line 290
Push(arr, r) == Append(arr, r)

\* Project construction with the status left to a caller's choice.
NewProjectFinished(now, title, description, people) ==
    Project(NumToString(now), title, description, people, Finished)

\* new Project(Date.now().toString(), ...), lines 282-288
NewProject(now, title, description, people) ==
    Project(NumToString(now), title, description, people, Active)

\* addProject capturing the snapshot before the push.
AddProjectStale(title, description, people) ==
    /\ pc = "idle"
    /\ Len(heap) < MaxProjects
    /\ LET newProject == NewProject(clock, title, description, people)
           r == Len(heap) + 1
           h == Append(heap, newProject)
           arrs == [arrays EXCEPT ![StoreArr] = Push(@, r)]
           cs == NotifyCalls(listeners, arrays)
       IN /\ heap' = h
          /\ Notified(cs, h, arrs)
          /\ lastOp' = [op |-> "addProject", id |-> newProject.id,
                        status |-> Active, prev |-> StoreView, rounds |-> 1]
    /\ UNCHANGED <<pc, clock, listeners>>

\* ProjectState.addProject, lines 281-295
AddProject(title, description, people) ==
    /\ pc = "idle"
    /\ Len(heap) < MaxProjects
    /\ LET newProject == NewProject(clock, title, description, people)
           r == Len(heap) + 1
           h == Append(heap, newProject)
           arrs == [arrays EXCEPT ![StoreArr] = Push(@, r)]
           cs == NotifyCalls(listeners, arrs)
       IN /\ heap' = h
          /\ Notified(cs, h, arrs)
          /\ lastOp' = [op |-> "addProject", id |-> newProject.id,
                        status |-> Active, prev |-> StoreView, rounds |-> 1]
    /\ UNCHANGED <<pc, clock, listeners>>

\* projects.find(prj => prj.id === id): the first match, or 0 for undefined
FindProject(h, arr, id) ==
    LET found == {k \in 1..Len(arr) : h[arr[k]].id = id}
    IN IF found = {} THEN 0
       ELSE arr[CHOOSE k \in found : \A m \in found : k <= m]

\* moveProject notifying whether or not anything changed.
MoveProjectAlways(id, newStatus) ==
    /\ pc = "idle"
    /\ LET r == FindProject(heap, projects, id)
           h == IF r # 0 THEN [heap EXCEPT ![r].status = newStatus] ELSE heap
       IN /\ heap' = h
          /\ Notified(NotifyCalls(listeners, arrays), h, arrays)
          /\ lastOp' = [op |-> "moveProject", id |-> id, status |-> newStatus,
                        prev |-> StoreView, rounds |-> 1]
    /\ UNCHANGED <<pc, clock, listeners>>

\* ProjectStore.moveProject(id, newStatus), spec.md section 4.2
MoveProject(id, newStatus) ==
    /\ pc = "idle"
    /\ LET r == FindProject(heap, projects, id)
       IN IF r # 0 /\ heap[r].status # newStatus
          THEN LET h == [heap EXCEPT ![r].status = newStatus]
               IN /\ heap' = h
                  /\ Notified(NotifyCalls(listeners, arrays), h, arrays)
                  /\ lastOp' = [op |-> "moveProject", id |-> id,
                                status |-> newStatus, prev |-> StoreView,
                                rounds |-> 1]
          ELSE /\ calls' = <<>>
               /\ lastOp' = [op |-> "moveProject", id |-> id,
                             status |-> newStatus, prev |-> StoreView,
                             rounds |-> 0]
               /\ UNCHANGED <<heap, arrays, received, assignedProjects, listEl, written>>
    /\ UNCHANGED <<pc, clock, listeners>>

----------------------------------------------------------------------------
(* Validation *)

Whitespace == {" ", "\t"}

RECURSIVE TrimStart(_)
TrimStart(s) ==
    IF s # <<>> /\ Head(s) \in Whitespace THEN TrimStart(Tail(s)) ELSE s

RECURSIVE TrimEnd(_)
TrimEnd(s) ==
    IF s # <<>> /\ s[Len(s)] \in Whitespace
    THEN TrimEnd(SubSeq(s, 1, Len(s) - 1)) ELSE s

\* String.prototype.trim, line 329
Trim(s) == TrimEnd(TrimStart(s))

\* Validatable.value is string | number, line 316.  A number is an integer
\* or NaN.
Str(s) == [type |-> "string", str |-> s, nan |-> FALSE, num |-> 0]
Num(n) == [type |-> "number", str |-> <<>>, nan |-> FALSE, num |-> n]
NaN == [type |-> "number", str |-> <<>>, nan |-> TRUE, num |-> 0]

\* value.toString(), line 329
ValueToString(v) ==
    IF v.type = "string" THEN v.str
    ELSE IF v.nan THEN <<"N", "a", "N">>
    ELSE IF v.num < 0 THEN <<"-">> \o NumToString(-v.num)
    ELSE NumToString(v.num)

\* lines 328-330
RuleRequired(vi, isValid) ==
    IF vi.required
    THEN isValid /\ Len(Trim(ValueToString(vi.value))) # 0
    ELSE isValid

\* The length rule applied to the trimmed value.
RuleMinLengthTrimmed(vi, isValid) ==
    IF "minLength" \in DOMAIN vi /\ vi.value.type = "string"
    THEN isValid /\ Len(Trim(vi.value.str)) >= vi.minLength
    ELSE isValid

\* lines 333-335
RuleMinLength(vi, isValid) ==
    IF "minLength" \in DOMAIN vi /\ vi.value.type = "string"
    THEN isValid /\ Len(vi.value.str) >= vi.minLength
    ELSE isValid

\* lines 338-340
RuleMaxLength(vi, isValid) ==
    IF "maxLength" \in DOMAIN vi /\ vi.value.type = "string"
    THEN isValid /\ Len(vi.value.str) <= vi.maxLength
    ELSE isValid

\* The lower bound taken as exclusive.
RuleMinExclusive(vi, isValid) ==
    IF "min" \in DOMAIN vi /\ vi.value.type = "number"
    THEN isValid /\ ~vi.value.nan /\ vi.value.num > vi.min
    ELSE isValid

\* lines 343-345; a comparison with NaN is false
RuleMin(vi, isValid) ==
    IF "min" \in DOMAIN vi /\ vi.value.type = "number"
    THEN isValid /\ ~vi.value.nan /\ vi.value.num >= vi.min
    ELSE isValid

\* lines 348-350
RuleMax(vi, isValid) ==
    IF "max" \in DOMAIN vi /\ vi.value.type = "number"
    THEN isValid /\ ~vi.value.nan /\ vi.value.num <= vi.max
    ELSE isValid

\* validate, lines 324-353
validate(vi) ==
    RuleMax(vi, RuleMin(vi, RuleMaxLength(vi, RuleMinLength(vi,
        RuleRequired(vi, TRUE)))))

----------------------------------------------------------------------------
(* ItemView, spec.md section 4.4 *)

Person == <<" ", "p", "e", "r", "s", "o", "n">>

\* The phrase always in the plural.
PeoplePhrasePlural(n) == NumToString(n) \o Person \o <<"s">>

\* The people-count phrase of an item.
PeoplePhrase(n) ==
    IF n = 1 THEN <<"1">> \o Person
    ELSE NumToString(n) \o Person \o <<"s">>

----------------------------------------------------------------------------
(* Top-level code and callers *)

\* new ProjectInput(), line 503: registers the submit handler
NewProjectInput ==
    /\ pc = "L503"
    /\ pc' = "L504"
    /\ UNCHANGED <<clock, heap, arrays, listeners, received,
                   assignedProjects, listEl, lastOp, calls, written>>
    /\ UNCHANGED <<formVars, dragVars, fnVars>>

\* new ProjectList(type), lines 389-396 (called at lines 504 and 505)
NewProjectList(type) ==
    /\ \/ pc = "L504" /\ type = "active" /\ pc' = "L505"
       \/ pc = "L505" /\ type = "finished" /\ pc' = "idle"
    /\ assignedProjects' = [assignedProjects EXCEPT ![type] = <<>>]
    /\ addListener(type)
    /\ lastOp' = [NoOp EXCEPT !.op = "addListener", !.prev = StoreView]
    /\ UNCHANGED <<clock, heap, listEl, written>>
    /\ UNCHANGED <<formVars, dragVars, fnVars>>

\* Any other caller of state.addListener, once the script has run.
Subscribe ==
    /\ pc = "idle"
    /\ Len(listeners) < MaxListeners
    /\ addListener("probe")
    /\ lastOp' = [NoOp EXCEPT !.op = "addListener", !.prev = StoreView]
    /\ UNCHANGED <<pc, clock, heap, assignedProjects, listEl, written>>
    /\ UNCHANGED <<formVars, dragVars, fnVars>>

\* Time passing between two events.
Tick ==
    /\ pc = "idle"
    /\ clock < MaxClock
    /\ clock' = clock + 1
    /\ UNCHANGED <<pc, heap, arrays, listeners, received,
                   assignedProjects, listEl, lastOp, calls, written>>
    /\ UNCHANGED <<formVars, dragVars, fnVars>>

InitApp ==
    /\ pc = "L503"
    /\ clock = 0
    /\ heap = <<>>
    /\ arrays = [a \in ArrIds |-> <<>>]
    /\ listeners = <<>>
    /\ received = <<>>
    /\ assignedProjects = [t \in ViewTypes |-> <<>>]
    /\ listEl = [t \in ViewTypes |-> <<>>]
    /\ lastOp = NoOp
    /\ calls = <<>>
    /\ written = {}
    /\ titleInput = <<>>
    /\ descriptionInput = <<>>
    /\ peopleInput = <<>>
    /\ lastSubmit = [outcome |-> "none", atCall |-> <<>>]
    /\ dragged = NoDrag
    /\ over = "none"
    /\ droppable = [t \in ViewTypes |-> FALSE]
    /\ lastDrop = <<>>

Init ==
    /\ InitApp
    /\ fnIn = NoFn
    /\ fnOut = NoResult

Next ==
    \/ NewProjectInput
    \/ \E type \in ViewTypes : NewProjectList(type)
    \/ Subscribe
    \/ \E a \in ArgTriples :
          AddProject(a[1], a[2], a[3]) /\ UNCHANGED <<formVars, dragVars, fnVars>>
    \/ \E id \in Ids(heap, projects) \cup {UnknownId}, s \in ProjectStatus :
          MoveProject(id, s) /\ UNCHANGED <<formVars, dragVars, fnVars>>
    \/ Tick

Spec == Init /\ [][Next]_vars

----------------------------------------------------------------------------
(* A subscriber that writes to the array it was passed.  Listener<T>, line *)
(* 256, hands the callback a plain T[]: nothing stops the callback from    *)
(* changing the array or the Project objects in it.  Between two           *)
(* notification rounds one subscriber writes, once.                        *)

ArrayMutations == {"push", "pop", "reverse"}
FieldMutations == {"setStatus"}

Reverse(s) == [k \in 1..Len(s) |-> s[Len(s) + 1 - k]]

Other(status) == IF status = Active THEN Finished ELSE Active

MutateSnapshot(i, m) ==
    /\ pc = "idle"
    /\ listeners[i] = "probe"
    /\ received[i] # NoArr
    /\ written = {}
    /\ written' = written \cup {i}
    /\ LET a == received[i]
           items == arrays[a]
       IN \/ /\ m = "push"                    \* items.push(items[0])
             /\ items # <<>>
             /\ Len(items) <= Len(heap)
             /\ arrays' = [arrays EXCEPT ![a] = Append(items, items[1])]
             /\ heap' = heap
          \/ /\ m = "pop"                     \* items.pop()
             /\ items # <<>>
             /\ arrays' = [arrays EXCEPT ![a] = SubSeq(items, 1, Len(items) - 1)]
             /\ heap' = heap
          \/ /\ m = "reverse"                 \* items.reverse()
             /\ Len(items) >= 2
             /\ arrays' = [arrays EXCEPT ![a] = Reverse(items)]
             /\ heap' = heap
          \/ /\ m = "setStatus"               \* items[0].status = the other one
             /\ items # <<>>
             /\ heap' = [heap EXCEPT ![items[1]].status = Other(@)]
             /\ arrays' = arrays
    /\ UNCHANGED <<pc, clock, listeners, received, assignedProjects, listEl,
                   lastOp, calls>>
    /\ UNCHANGED <<formVars, dragVars, fnVars>>

NextMut ==
    \/ Next
    \/ \E i \in 1..Len(listeners), m \in ArrayMutations \cup FieldMutations :
          MutateSnapshot(i, m)

SpecMut == Init /\ [][NextMut]_vars

----------------------------------------------------------------------------
(* ProjectInput *)

IsDigit(c) == c \in {"0", "1", "2", "3", "4", "5", "6", "7", "8", "9"}

DigitValue(c) == CHOOSE d \in 0..9 : Digit(d) = c

RECURSIVE DigitsValue(_)
DigitsValue(s) ==
    IF s = <<>> THEN 0
    ELSE 10 * DigitsValue(SubSeq(s, 1, Len(s) - 1)) + DigitValue(s[Len(s)])

AllDigits(s) == s # <<>> /\ \A k \in 1..Len(s) : IsDigit(s[k])

\* +value, line 455, on white space, decimal digits and a sign: white space
\* is trimmed, the empty string is 0, anything that is not a number is NaN.
ToNumber(s) ==
    LET t == Trim(s)
    IN IF t = <<>> THEN Num(0)
       ELSE IF AllDigits(t) THEN Num(DigitsValue(t))
       ELSE IF Head(t) = "-" /\ AllDigits(Tail(t)) THEN Num(-DigitsValue(Tail(t)))
       ELSE NaN

NoInput == [isArray |-> FALSE, title |-> <<>>, description |-> <<>>, people |-> 0]

\* gatherUserInput rejecting only when all three fields are invalid.
gatherUserInputAll(title, description, people) ==
    LET titleValid == [value |-> Str(title), required |-> TRUE]
        describeValid == [value |-> Str(description), required |-> TRUE,
                          minLength |-> 5]
        peopleValid == [value |-> ToNumber(people), required |-> TRUE,
                        min |-> 1, max |-> 5]
    IN IF ~validate(titleValid) /\ ~validate(describeValid)
            /\ ~validate(peopleValid)
       THEN NoInput
       ELSE [isArray |-> TRUE, title |-> title, description |-> description,
             people |-> ToNumber(people).num]

\* gatherUserInput, lines 452-481: the tuple, or nothing after the alert
gatherUserInput(title, description, people) ==
    LET titleValid == [value |-> Str(title), required |-> TRUE]
        describeValid == [value |-> Str(description), required |-> TRUE,
                          minLength |-> 5]
        peopleValid == [value |-> ToNumber(people), required |-> TRUE,
                        min |-> 1, max |-> 5]
    IN IF ~validate(titleValid) \/ ~validate(describeValid)
            \/ ~validate(peopleValid)
       THEN NoInput
       ELSE [isArray |-> TRUE, title |-> title, description |-> description,
             people |-> ToNumber(people).num]

\* clearInputs, lines 483-487
clearInputs ==
    /\ titleInput' = <<>>
    /\ descriptionInput' = <<>>
    /\ peopleInput' = <<>>

\* submitHandler clearing the fields before the call of addProject.
submitHandlerClearFirst ==
    /\ pc = "idle"
    /\ LET userInput == gatherUserInput(titleInput, descriptionInput, peopleInput)
       IN IF userInput.isArray
          THEN /\ clearInputs
               /\ AddProject(userInput.title, userInput.description,
                             userInput.people)
               /\ lastSubmit' = [outcome |-> "added",
                                 atCall |-> <<titleInput', descriptionInput',
                                              peopleInput'>>]
          ELSE /\ lastSubmit' = [outcome |-> "alert", atCall |-> <<>>]
               /\ UNCHANGED <<storeVars, titleInput, descriptionInput,
                              peopleInput>>
    /\ UNCHANGED <<dragVars, fnVars>>

\* submitHandler, lines 490-499.  lastSubmit.atCall is what the three
\* fields held while addProject and its listeners ran.
submitHandler ==
    /\ pc = "idle"
    /\ LET userInput == gatherUserInput(titleInput, descriptionInput, peopleInput)
       IN IF userInput.isArray
          THEN /\ AddProject(userInput.title, userInput.description,
                             userInput.people)
               /\ lastSubmit' = [outcome |-> "added",
                                 atCall |-> <<titleInput, descriptionInput,
                                              peopleInput>>]
               /\ clearInputs
          ELSE /\ lastSubmit' = [outcome |-> "alert", atCall |-> <<>>]
               /\ UNCHANGED <<storeVars, titleInput, descriptionInput,
                              peopleInput>>
    /\ UNCHANGED <<dragVars, fnVars>>

FiveBlanks == <<" ", " ", " ", " ", " ">>

\* What the user types: an entry the form accepts, then entries with a blank
\* title, a short description, a blank description of length 5, and a
\* people field that reads as 6, as 0 and as NaN.
FormEntries ==
    { <<BuildShed, WeekendProject, <<"3">> >>,
      <<Blank, WeekendProject, <<"3">> >>,
      <<BuildShed, Abcd, <<"2">> >>,
      <<BuildShed, FiveBlanks, <<"3">> >>,
      <<BuildShed, WeekendProject, <<"6">> >>,
      <<BuildShed, WeekendProject, <<>> >>,
      <<BuildShed, WeekendProject, <<"x">> >> }

\* The user fills in the three fields.
Enter(e) ==
    /\ pc = "idle"
    /\ titleInput' = e[1]
    /\ descriptionInput' = e[2]
    /\ peopleInput' = e[3]
    /\ UNCHANGED <<storeVars, lastSubmit, dragVars, fnVars>>

----------------------------------------------------------------------------
(* Drag and drop, spec.md sections 4.3 and 4.4 *)

\* Drag start on the item of a project shown in a view: the payload is the
\* project's id.  A drag of other text carries a payload that is no id.
DragStart(payload) ==
    /\ pc = "idle"
    /\ dragged = NoDrag
    /\ \/ \E t \in ViewTypes : \E k \in 1..Len(assignedProjects[t]) :
             payload = heap[assignedProjects[t][k]].id
       \/ payload = UnknownId
    /\ dragged' = payload
    /\ UNCHANGED <<storeVars, formVars, over, droppable, lastDrop, fnVars>>

\* Drag over a view: the default action is suppressed, the affordance set.
DragOver(t) ==
    /\ dragged # NoDrag
    /\ over \in {"none", t}
    /\ over' = t
    /\ droppable' = [droppable EXCEPT ![t] = TRUE]
    /\ UNCHANGED <<storeVars, formVars, dragged, lastDrop, fnVars>>

\* Drag leave: the affordance is removed.
DragLeave(t) ==
    /\ dragged # NoDrag
    /\ over = t
    /\ over' = "none"
    /\ droppable' = [droppable EXCEPT ![t] = FALSE]
    /\ UNCHANGED <<storeVars, formVars, dragged, lastDrop, fnVars>>

\* A drop that leaves the affordance to the re-render.
DropImplicit(t) ==
    /\ dragged # NoDrag
    /\ over = t
    /\ MoveProject(dragged, TypeStatus(t))
    /\ lastDrop' = <<[id |-> dragged, status |-> TypeStatus(t)]>>
    /\ droppable' = [droppable EXCEPT ![t] = (calls' = <<>>)]
    /\ over' = "none"
    /\ UNCHANGED <<formVars, dragged, fnVars>>

\* A drop that moves the project to the status of the view it left.
DropToOther(t) ==
    /\ dragged # NoDrag
    /\ over = t
    /\ MoveProject(dragged, Other(TypeStatus(t)))
    /\ lastDrop' = <<[id |-> dragged, status |-> Other(TypeStatus(t))]>>
    /\ droppable' = [droppable EXCEPT ![t] = FALSE]
    /\ over' = "none"
    /\ UNCHANGED <<formVars, dragged, fnVars>>

\* Drop on a view: moveProject(payload, the view's status), and the
\* affordance is removed.
Drop(t) ==
    /\ dragged # NoDrag
    /\ over = t
    /\ MoveProject(dragged, TypeStatus(t))
    /\ lastDrop' = <<[id |-> dragged, status |-> TypeStatus(t)]>>
    /\ droppable' = [droppable EXCEPT ![t] = FALSE]
    /\ over' = "none"
    /\ UNCHANGED <<formVars, dragged, fnVars>>

\* Drag end, after a drop or when the gesture is given up outside a view:
\* no state of the program changes.
DragEnd ==
    /\ dragged # NoDrag
    /\ over = "none"
    /\ dragged' = NoDrag
    /\ UNCHANGED <<storeVars, formVars, over, droppable, lastDrop, fnVars>>

\* The application as wired: projects come from the form, moves from drops.
NextApp ==
    \/ NewProjectInput
    \/ \E type \in ViewTypes : NewProjectList(type)
    \/ \E e \in FormEntries : Enter(e)
    \/ submitHandler
    \/ \E payload \in Ids(heap, projects) \cup {UnknownId} : DragStart(payload)
    \/ \E t \in ViewTypes : DragOver(t)
    \/ \E t \in ViewTypes : DragLeave(t)
    \/ \E t \in ViewTypes : Drop(t)
    \/ DragEnd
    \/ Tick

SpecApp == Init /\ [][NextApp]_vars

----------------------------------------------------------------------------
(* The pure functions, each evaluated on its own on an argument drawn from *)
(* a bounded set.                                                          *)

Chars == {" ", "\t", "a"}

Strings == UNION {[1..k -> Chars] : k \in 0..MaxLen}

NumericInputs ==
    {[fn |-> "validate",
      input |-> [value |-> v, required |-> TRUE, min |-> m, max |-> M]] :
        v \in {Num(n) : n \in -1..MaxNum + 1} \cup {NaN},
        m \in 0..MaxNum, M \in 0..MaxNum}

StringInputs ==
    {[fn |-> "validate",
      input |-> [value |-> Str(str), required |-> TRUE,
                 minLength |-> a, maxLength |-> b]] :
        str \in Strings, a \in 0..MaxLen, b \in 0..MaxLen}

PhraseInputs == {[fn |-> "phrase", n |-> n] : n \in 0..MaxPeople}

EvalValidate ==
    /\ fnIn.fn = "validate"
    /\ ~fnOut.done
    /\ fnOut' = [done |-> TRUE, valid |-> validate(fnIn.input), text |-> <<>>]
    /\ UNCHANGED <<storeVars, formVars, dragVars, fnIn>>

EvalPhrase ==
    /\ fnIn.fn = "phrase"
    /\ ~fnOut.done
    /\ fnOut' = [done |-> TRUE, valid |-> FALSE, text |-> PeoplePhrase(fnIn.n)]
    /\ UNCHANGED <<storeVars, formVars, dragVars, fnIn>>

InitFn ==
    /\ InitApp
    /\ \/ fnIn \in NumericInputs
       \/ fnIn \in StringInputs
       \/ fnIn \in PhraseInputs
    /\ fnOut = NoResult

NextFn ==
    \/ EvalValidate
    \/ EvalPhrase

SpecFn == InitFn /\ [][NextFn]_vars

----------------------------------------------------------------------------
(* Properties *)

Titles(h, refs) == [k \in 1..Len(refs) |-> h[refs[k]].title]

Count(seq, x) == Cardinality({k \in 1..Len(seq) : seq[k] = x})

IsArgs(p, a) == p.title = a[1] /\ p.description = a[2] /\ p.people = a[3]

\* C1: every addProject call, whatever its arguments, appends exactly one
\* project, with status Active and the given fields, at the end of the
\* collection: the length grows by 1 and the projects already present keep
\* their positions and their contents.
C1_AddProjectAppends ==
    [][\A a \in ArgTriples :
          AddProject(a[1], a[2], a[3]) =>
             /\ Len(projects') = Len(projects) + 1
             /\ SubSeq(projects', 1, Len(projects)) = projects
             /\ \A k \in 1..Len(projects) :
                   heap'[projects[k]] = heap[projects[k]]
             /\ projects'[Len(projects')] \notin
                   {projects[k] : k \in 1..Len(projects)}
             /\ heap'[projects'[Len(projects')]].status = Active
             /\ IsArgs(heap'[projects'[Len(projects')]], a)]_vars

\* C1 witness: a project the form would have rejected was appended behind an
\* existing one.
C1_Witness ==
    /\ lastOp.op = "addProject"
    /\ Len(projects) >= 2
    /\ StoreView[Len(projects)].title = Blank
    /\ StoreView[Len(projects)].people = 0
    /\ StoreView[1].title = BuildShed

\* C2: no two projects in the collection have the same id.
C2_IdsUnique ==
    \A j, k \in 1..Len(projects) :
        j # k => heap[projects[j]].id # heap[projects[k]].id

\* C3: an operation that changed the store has invoked every registered
\* listener exactly once, in registration order, by the time it returns.
C3_NotifiedOnceInOrder ==
    StoreView # lastOp.prev =>
        /\ Len(calls) = Len(listeners)
        /\ \A k \in 1..Len(calls) : calls[k].listener = k

\* C3 witness: a mutation with three listeners registered, all three called.
C3_Witness ==
    /\ StoreView # lastOp.prev
    /\ Len(listeners) = 3
    /\ Len(calls) = 3

\* C4: every listener invocation was passed the projects of the store's
\* collection as it is after the mutation, in the same order; so all the
\* invocations of one round were passed equal contents.
C4_SnapshotIsCurrent ==
    \A k \in 1..Len(calls) :
        /\ calls[k].items = projects
        /\ Deref(heap, calls[k].items) = StoreView
        /\ \A m \in 1..Len(calls) : calls[m].items = calls[k].items

\* C4 witness: a round of at least two invocations on a collection of at
\* least two projects, one of them Finished.
C4_Witness ==
    /\ Len(calls) >= 2
    /\ Len(projects) >= 2
    /\ lastOp.op = "addProject"
    /\ \E k \in 1..Len(projects) : StoreView[k].status = Finished

\* What a write to the snapshot of listener i must leave alone: the store's
\* collection, and the arrays passed to the other listeners with the
\* contents of the projects in them.
FrameOfWrite(i) ==
    /\ projects' = projects
    /\ StoreView' = StoreView
    /\ \A j \in 1..Len(listeners) :
          j # i /\ received[j] # NoArr =>
             /\ arrays'[received[j]] = arrays[received[j]]
             /\ Deref(heap', arrays'[received[j]]) =
                  Deref(heap, arrays[received[j]])

\* C5 as stated: whatever a subscriber does to a snapshot it received (add,
\* remove or reorder entries, or change a field of an entry), the store's
\* collection and the other subscribers' snapshots stay as they were.
C5_AnyWriteIsLocal ==
    [][\A i \in 1..Len(listeners), m \in ArrayMutations \cup FieldMutations :
          MutateSnapshot(i, m) => FrameOfWrite(i)]_vars

\* C5 amended: adding, removing or reordering the entries of a received
\* snapshot leaves the store's collection and the other subscribers'
\* snapshots as they were.
C5_ArrayWriteIsLocal ==
    [][\A i \in 1..Len(listeners), m \in ArrayMutations :
          MutateSnapshot(i, m) => FrameOfWrite(i)]_vars

\* C5 witness: a subscriber's snapshot no longer lists what the store lists,
\* with the project contents untouched: the subscriber changed its array.
C5_Witness ==
    /\ written # {}
    /\ Len(projects) >= 2
    /\ \E i \in 1..Len(listeners) :
          /\ listeners[i] = "probe"
          /\ received[i] # NoArr
          /\ arrays[received[i]] # projects
    /\ \A t \in ViewTypes :
          assignedProjects[t] = FilterByType(t, projects, heap)

\* C6: when a project with the given id exists with a status other than the
\* argument, the first of two successive moveProject(id, status) calls runs
\* exactly one notification round, the second none, and after both every
\* project with that id has the status.
C6_MoveTwice ==
    [][\A id \in Ids(heap, projects), s \in ProjectStatus :
          ( /\ lastOp.op = "moveProject"
            /\ lastOp.id = id
            /\ lastOp.status = s
            /\ \E k \in 1..Len(lastOp.prev) :
                  lastOp.prev[k].id = id /\ lastOp.prev[k].status # s
            /\ MoveProject(id, s) )
          => /\ Len(calls) = Len(listeners)
             /\ \A k \in 1..Len(calls) : calls[k].listener = k
             /\ calls' = <<>>
             /\ \A k \in 1..Len(projects') :
                   StoreView'[k].id = id => StoreView'[k].status = s]_vars

\* C7: moveProject with an id that no project has invokes no listener and
\* leaves the collection, its order and every project as they were.
C7_MoveUnknownId ==
    [][\A id \in Ids(heap, projects) \cup {UnknownId}, s \in ProjectStatus :
          (id \notin Ids(heap, projects) /\ MoveProject(id, s))
          => /\ calls' = <<>>
             /\ projects' = projects
             /\ heap' = heap
             /\ received' = received
             /\ assignedProjects' = assignedProjects
             /\ listEl' = listEl]_vars

\* C7 witness: moveProject was called with an unknown id on a store that
\* holds projects and has listeners.
C7_Witness ==
    /\ lastOp.op = "moveProject"
    /\ lastOp.id = UnknownId
    /\ lastOp.id \notin Ids(heap, projects)
    /\ Len(projects) >= 2
    /\ Len(listeners) >= 2
    /\ calls = <<>>

\* C8: a listener is passed nothing when it is registered, nor by any later
\* step that leaves the collection as it is; the step that next changes the
\* collection passes it the whole collection.
C8_NoCallAtSubscribe ==
    [][\A i \in 1..Len(listeners') :
          /\ ( /\ i > Len(listeners) \/ received[i] = NoArr
               /\ StoreView' = StoreView )
             => /\ received'[i] = NoArr
                /\ \A k \in 1..Len(calls') : calls'[k].listener # i
          /\ StoreView' # StoreView
             => /\ received'[i] # NoArr
                /\ arrays'[received'[i]] = projects'
                /\ \E k \in 1..Len(calls') : calls'[k].listener = i]_vars

\* C8 witness: a subscriber was registered on a store that holds projects
\* and has been passed nothing.
C8_Witness ==
    /\ lastOp.op = "addListener"
    /\ Len(projects) >= 2
    /\ listeners[Len(listeners)] = "probe"
    /\ received[Len(listeners)] = NoArr
    /\ calls = <<>>

\* The listener index of a view, or 0 when the view is not subscribed.
ListenerOf(t) ==
    IF \E i \in 1..Len(listeners) : listeners[i] = t
    THEN CHOOSE i \in 1..Len(listeners) : listeners[i] = t
    ELSE 0

\* C9: once a view has been notified, its assigned projects are the projects
\* of the snapshot it was passed whose status is the view's, in snapshot
\* order, and what it has rendered is that filtered list.
C9_ViewFilters ==
    \A t \in ViewTypes :
        LET i == ListenerOf(t)
        IN (i # 0 /\ received[i] # NoArr) =>
             LET snapshot == arrays[received[i]]
                 OfType(r) == heap[r].status = TypeStatus(t)
             IN /\ assignedProjects[t] = SelectSeq(snapshot, OfType)
                /\ listEl[t] = Titles(heap, SelectSeq(snapshot, OfType))

\* C9 witness: both views have been notified and both hold projects.
C9_Witness ==
    /\ \A t \in ViewTypes :
          /\ ListenerOf(t) # 0
          /\ received[ListenerOf(t)] # NoArr
          /\ assignedProjects[t] # <<>>
    /\ Len(projects) = 3
    /\ Len(assignedProjects["active"]) = 2

\* C10: once the script has run, every project of the store is shown in the
\* list of the view of its status, once, and in no other list; after the
\* first addProject the active list shows that project alone and the
\* finished list is empty.
C10_OneViewPerProject ==
    pc = "idle" =>
        /\ \A t \in ViewTypes :
              /\ listEl[t] = Titles(heap, assignedProjects[t])
              /\ \A k \in 1..Len(projects) :
                    Count(assignedProjects[t], projects[k]) =
                       IF heap[projects[k]].status = TypeStatus(t) THEN 1 ELSE 0
              /\ \A k \in 1..Len(assignedProjects[t]) :
                    Count(projects, assignedProjects[t][k]) = 1
        /\ (lastOp.op = "addProject" /\ Len(projects) = 1) =>
              /\ listEl["active"] = <<heap[projects[1]].title>>
              /\ listEl["finished"] = <<>>

\* C10 witness: projects are shown in both lists.
C10_Witness ==
    /\ pc = "idle"
    /\ Len(projects) = 3
    /\ Len(listEl["active"]) = 1
    /\ Len(listEl["finished"]) = 2

Shown(t, r) == \E k \in 1..Len(assignedProjects[t]) : assignedProjects[t][k] = r

\* C11: when moveProject(id, Finished) is called with the id of a project of
\* the store, then as the call returns that project is not in the active
\* list and is in the finished list, and both lists show what is assigned.
C11_MoveToFinished ==
    [][\A id \in Ids(heap, projects) :
          MoveProject(id, Finished) =>
             /\ \A k \in 1..Len(projects) :
                   heap[projects[k]].id = id =>
                      /\ ~Shown("active", projects[k])'
                      /\ Shown("finished", projects[k])'
             /\ \A t \in ViewTypes :
                   listEl'[t] = Titles(heap', assignedProjects'[t])]_vars

\* C14: for a number v (NaN included) and bounds m and M, validate of
\* {value: v, required: true, min: m, max: M} is true exactly when
\* m <= v <= M.
C14_NumericRange ==
    (fnOut.done /\ fnIn.fn = "validate" /\ fnIn.input.value.type = "number") =>
        LET v == fnIn.input.value
        IN fnOut.valid <=>
             (~v.nan /\ fnIn.input.min <= v.num /\ v.num <= fnIn.input.max)

\* C14 witness: a value equal to both bounds was accepted.
C14_Witness ==
    /\ fnOut.done
    /\ fnIn.fn = "validate"
    /\ fnIn.input.value = Num(2)
    /\ fnIn.input.min = 2
    /\ fnIn.input.max = 2
    /\ fnOut.valid

\* C15: for a string s and bounds a and b, validate of {value: s, required:
\* true, minLength: a, maxLength: b} is true exactly when a <= len(s) <= b,
\* with the length that of s untrimmed, and s has a character that is not
\* white space.
C15_StringLength ==
    (fnOut.done /\ fnIn.fn = "validate" /\ fnIn.input.value.type = "string") =>
        LET str == fnIn.input.value.str
        IN fnOut.valid <=>
             /\ fnIn.input.minLength <= Len(str)
             /\ Len(str) <= fnIn.input.maxLength
             /\ \E k \in 1..Len(str) : str[k] \notin Whitespace

\* C15 witness: a string whose untrimmed length meets the lower bound and
\* whose trimmed length does not was accepted.
C15_Witness ==
    /\ fnOut.done
    /\ fnIn.fn = "validate"
    /\ fnIn.input.value = Str(<<" ", "a", " ">>)
    /\ fnIn.input.minLength = 3
    /\ fnIn.input.maxLength = 3
    /\ fnOut.valid

\* C17: the people-count phrase is "1 person" for 1 and "<n> persons" for
\* every other count from 0 up.
C17_PeoplePhrase ==
    (fnOut.done /\ fnIn.fn = "phrase") =>
        /\ fnIn.n = 1 => fnOut.text = <<"1", " ", "p", "e", "r", "s", "o", "n">>
        /\ fnIn.n = 0 => fnOut.text = <<"0", " ", "p", "e", "r", "s", "o", "n", "s">>
        /\ fnIn.n = 10 =>
              fnOut.text = <<"1", "0", " ", "p", "e", "r", "s", "o", "n", "s">>
        /\ fnIn.n # 1 =>
              fnOut.text = NumToString(fnIn.n)
                             \o <<" ", "p", "e", "r", "s", "o", "n", "s">>

\* C17 witness: the phrases of 0, of 1 and of a two-digit count.
C17_Witness ==
    /\ fnOut.done
    /\ fnIn.fn = "phrase"
    /\ \/ fnIn.n = 1 /\ fnOut.text = <<"1", " ", "p", "e", "r", "s", "o", "n">>
       \/ fnIn.n = 0 /\ fnOut.text = <<"0", " ", "p", "e", "r", "s", "o", "n", "s">>
       \/ fnIn.n = 10 /\ Len(fnOut.text) = 10

\* The three fields as a submission reads them: does one fail validation?
FieldFails(title, description, people) ==
    \/ \A k \in 1..Len(title) : title[k] \in Whitespace
    \/ \A k \in 1..Len(description) : description[k] \in Whitespace
    \/ Len(description) < 5
    \/ ToNumber(people).nan
    \/ ToNumber(people).num < 1
    \/ ToNumber(people).num > 5

\* C12: a submission with a field that fails validation raises the alert
\* and changes nothing: no project is added, the store and both views are as
\* before, no subscriber is called, and the three fields keep their text.
C12_RejectedSubmit ==
    [][(submitHandler /\ FieldFails(titleInput, descriptionInput, peopleInput)) =>
          /\ lastSubmit'.outcome = "alert"
          /\ UNCHANGED <<heap, arrays, lastOp, calls, received>>
          /\ UNCHANGED <<assignedProjects, listEl>>
          /\ UNCHANGED <<titleInput, descriptionInput, peopleInput>>]_vars

\* C12 witness: a submission was rejected with projects in the store and
\* text in the fields.
C12_Witness ==
    /\ lastSubmit.outcome = "alert"
    /\ Len(projects) >= 1
    /\ titleInput = BuildShed
    /\ descriptionInput = Abcd

\* C13: a submission with three valid fields calls addProject once, with the
\* title and description entered and the people field as a number; the
\* fields still hold their text while that call and its notifications run
\* and are empty afterwards; the project added has a title that is not
\* blank, a description of length 5 or more and a people count in 1..5.
C13_AcceptedSubmit ==
    [][(submitHandler /\ ~FieldFails(titleInput, descriptionInput, peopleInput)) =>
          /\ AddProject(titleInput, descriptionInput, ToNumber(peopleInput).num)
          /\ Len(projects') = Len(projects) + 1
          /\ lastSubmit' = [outcome |-> "added",
                            atCall |-> <<titleInput, descriptionInput,
                                         peopleInput>>]
          /\ titleInput' = <<>>
          /\ descriptionInput' = <<>>
          /\ peopleInput' = <<>>
          /\ LET prj == heap'[projects'[Len(projects')]]
             IN /\ \E k \in 1..Len(prj.title) : prj.title[k] \notin Whitespace
                /\ Len(prj.description) >= 5
                /\ prj.people \in 1..5]_vars

\* C13 witness: the form has added a project of 3 people and is empty.
C13_Witness ==
    /\ lastSubmit.outcome = "added"
    /\ lastSubmit.atCall = <<BuildShed, WeekendProject, <<"3">> >>
    /\ lastOp.op = "addProject"
    /\ Len(projects) >= 1
    /\ heap[projects[Len(projects)]].people = 3
    /\ titleInput = <<>>
    /\ descriptionInput = <<>>
    /\ peopleInput = <<>>

\* C16: a drop on a view calls moveProject once, with the id the gesture
\* carries and the status of the view that receives the drop, whichever
\* view the drag started from.
C16_DropMoves ==
    [][\A t \in ViewTypes :
          (Drop(t) /\ dragged \in Ids(heap, projects)) =>
             /\ lastDrop' = <<[id |-> dragged, status |-> TypeStatus(t)]>>
             /\ MoveProject(dragged, TypeStatus(t))
             /\ lastOp'.op = "moveProject"
             /\ lastOp'.id = dragged
             /\ lastOp'.status = IF t = "active" THEN Active ELSE Finished]_vars

\* C16 witness: a project dragged from the finished view was dropped on the
\* active view and moved there.
C16_Witness ==
    /\ lastDrop # <<>>
    /\ lastDrop[1].status = Active
    /\ lastOp.op = "moveProject"
    /\ lastOp.rounds = 1
    /\ \E k \in 1..Len(projects) :
          /\ heap[projects[k]].id = lastDrop[1].id
          /\ heap[projects[k]].status = Active
          /\ lastOp.prev[k].status = Finished

\* C18: once a view has been notified, the items of its list are the
\* projects of the store with the view's status, each once and in store
\* order, and nothing else: after n calls of addProject and no move the
\* active list has n items.
C18_ClearAndRebuild ==
    pc = "idle" =>
        \A t \in ViewTypes :
            (ListenerOf(t) # 0 /\ received[ListenerOf(t)] # NoArr) =>
                LET mine == SelectSeq(projects,
                               LAMBDA r : heap[r].status = TypeStatus(t))
                IN /\ Len(listEl[t]) = Len(mine)
                   /\ \A k \in 1..Len(mine) : listEl[t][k] = heap[mine[k]].title
                   /\ (t = "active" /\ \A r \in 1..Len(heap) : heap[r].status = Active)
                         => Len(listEl[t]) = Len(projects)

\* C18 witness: three calls of addProject, no move, three items shown.
C18_Witness ==
    /\ pc = "idle"
    /\ lastOp.op = "addProject"
    /\ Len(projects) = 3
    /\ \A r \in 1..Len(heap) : heap[r].status = Active
    /\ Len(listEl["active"]) = 3
    /\ listEl["finished"] = <<>>

\* C19: a view's droppable mark is off after a drag leave on the view and
\* after a drop on it, a drop that moves nothing included, and no mark is
\* on when no gesture is under way.
C19_AffordanceOff ==
    [][/\ \A t \in ViewTypes : (DragLeave(t) \/ Drop(t)) => ~droppable'[t]
       /\ dragged' = NoDrag => \A t \in ViewTypes : ~droppable'[t]]_vars

\* C19 witness: a drop that moved nothing (the project was already in the
\* view's partition) has ended with no mark on.
C19_Witness ==
    /\ lastDrop # <<>>
    /\ lastDrop[1].id \in Ids(heap, projects)
    /\ lastOp.op = "moveProject"
    /\ lastOp.rounds = 0
    /\ dragged = NoDrag
    /\ \A t \in ViewTypes : ~droppable[t]

\* C20: in every step the projects of the store stay, each at its position
\* and with its id, title, description and people count; every status is
\* Active or Finished; and a status changes only in a step of moveProject.
C20_ProjectsFrame ==
    [][/\ Len(projects') >= Len(projects)
       /\ \A k \in 1..Len(projects) :
             /\ projects'[k] = projects[k]
             /\ heap'[projects[k]].id = heap[projects[k]].id
             /\ heap'[projects[k]].title = heap[projects[k]].title
             /\ heap'[projects[k]].description = heap[projects[k]].description
             /\ heap'[projects[k]].people = heap[projects[k]].people
             /\ heap'[projects[k]].status # heap[projects[k]].status =>
                   /\ \E s \in ProjectStatus :
                         MoveProject(heap[projects[k]].id, s)
                   /\ ~submitHandler
       /\ \A k \in 1..Len(projects') :
             heap'[projects'[k]].status \in {Active, Finished}]_vars

\* C20 witness: after submissions and a move, the store holds two projects,
\* the first of them finished.
C20_Witness ==
    /\ Len(projects) >= 2
    /\ heap[projects[1]].status = Finished
    /\ lastSubmit.outcome = "added"
    /\ lastDrop # <<>>

====
